---- MODULE Spec2Model ----
(***************************************************************************)
(* Spaced-repetition scheduling and gamification of the student-mistakes   *)
(* system: services/review_scheduler.py, services/gamification.py and the  *)
(* complete_reviews handler of api/routes/reviews.py.                      *)
(*                                                                         *)
(* Numbers.  Ease factors and multipliers are Python floats with at most   *)
(* two decimals in every case modelled here; they are kept as integers in  *)
(* hundredths (2.5 is 250), so that e + 0.1 is e + 10 and int(i * e) is    *)
(* (i * e) \div 100.  The arithmetic is exact decimal arithmetic: where    *)
(* the exact product i * e is a whole number, the float product may fall   *)
(* just below it (30 * (2.4 - 0.2) is 65.99...), and int() then gives one  *)
(* day less than the model.  Comparisons, clamps (min, max) and sums of    *)
(* integers are not affected.  Dates are day numbers; timedelta(days = n)  *)
(* adds n.                                                                 *)
(*                                                                         *)
(* Five specifications share the variables:                                *)
(*   Spec       complete_reviews requests served one after another;        *)
(*   SpecGam    the gamification engine's operations called in any order;  *)
(*   SpecProg   the same operations on UserProgress rows from a bounded    *)
(*              set (streaks and review counts at the thresholds);         *)
(*   SpecConc   complete_reviews requests with interleaved steps, any of   *)
(*              which may fail;                                            *)
(*   SpecSched  the scheduler's pure functions on bounded inputs.          *)
(***************************************************************************)
EXTENDS Integers, Sequences, FiniteSets, TLC

VARIABLES
    cfg,          \* settings.spaced_repetition, fixed for a run
    histUser,     \* user_id a ReviewHistory row gets when none is passed
    today,        \* the clock: date.today() / datetime.utcnow() as a day number
    reviews,      \* table ScheduledReview (committed rows, in insertion order)
    history,      \* table ReviewHistory   (committed rows, in insertion order)
    progress,     \* table UserProgress    (user_id -> row or NoRow)
    achievements, \* table Achievement     (committed rows, in insertion order)
    resp,         \* what the last call returned
    pc,           \* concurrent requests: position of each request
    sess,         \* concurrent requests: each request's session (unflushed work)
    params,       \* scheduler runs: the (interval, ease, repetitions) being evolved
    call          \* scheduler runs: the last scheduler call and its result

vars == <<cfg, histUser, today, reviews, history, progress, achievements,
          resp, pc, sess, params, call>>

-----------------------------------------------------------------------------
(* Bounds of the model. *)

MaxInterval == 400
MaxReps == 4
MaxLastDay == 2

-----------------------------------------------------------------------------
(* Program constants. *)

MaxIntervalDays == 365
SecondInterval == 6
MinRating == 0
MaxRating == 5
PassRating == 3

NoDate == -1

NoCall == [op |-> "none"]

Ratings == MinRating..MaxRating

Min(a, b) == IF a <= b THEN a ELSE b

Max(a, b) == IF a >= b THEN a ELSE b

-----------------------------------------------------------------------------
(* settings.spaced_repetition.  review_scheduler.py and tasks.py read      *)
(* initial_interval, initial_ease_factor, min_ease_factor, max_ease_factor,*)
(* good_multiplier and easy_multiplier from it, but config/settings.py     *)
(* declares no such section: the values are taken from the specification   *)
(* (initial interval 1, default ease 2.5, ease factors and multipliers     *)
(* that make intervals grow, i.e. at least 1.0, and min <= max).           *)

SpacedRepetitionSettings ==
    { [initial_interval |-> 1, initial_ease_factor |-> 250,
       min_ease_factor |-> 130, max_ease_factor |-> 250,
       good_multiplier |-> 100, easy_multiplier |-> 130],
      [initial_interval |-> 1, initial_ease_factor |-> 250,
       min_ease_factor |-> 130, max_ease_factor |-> 300,
       good_multiplier |-> 120, easy_multiplier |-> 150],
      [initial_interval |-> 2, initial_ease_factor |-> 250,
       min_ease_factor |-> 110, max_ease_factor |-> 260,
       good_multiplier |-> 100, easy_multiplier |-> 120] }

DefaultSettings ==
    [initial_interval |-> 1, initial_ease_factor |-> 250,
     min_ease_factor |-> 130, max_ease_factor |-> 300,
     good_multiplier |-> 120, easy_multiplier |-> 150]

-----------------------------------------------------------------------------
(* ReviewScheduler (services/review_scheduler.py). *)

(* The day count calculate_next_review_date adds, as a number of           *)
(* ten-thousandths of a day before the cap and the truncation.             *)
next_interval_raw(s, performance_rating, current_interval, ease_factor) ==
    IF performance_rating < PassRating
    THEN s.initial_interval * 10000
    ELSE IF performance_rating = 3
         THEN current_interval * ease_factor * s.good_multiplier
         ELSE IF performance_rating = 4
              THEN current_interval * ease_factor * s.easy_multiplier
              ELSE current_interval * ease_factor * 100

calculate_next_review_date_bug_uncapped(s, last_review_date, performance_rating, current_interval, ease_factor) ==
    last_review_date
    + next_interval_raw(s, performance_rating, current_interval, ease_factor) \div 10000

calculate_next_review_date_bug_zero(s, last_review_date, performance_rating, current_interval, ease_factor) ==
    IF performance_rating < PassRating
    THEN last_review_date
    ELSE last_review_date
         + Min(next_interval_raw(s, performance_rating, current_interval, ease_factor) \div 10000,
               MaxIntervalDays)

calculate_next_review_date_bug_keep(s, last_review_date, performance_rating, current_interval, ease_factor) ==
    last_review_date
    + Min(IF performance_rating < PassRating
          THEN current_interval
          ELSE next_interval_raw(s, performance_rating, current_interval, ease_factor) \div 10000,
          MaxIntervalDays)

(* next_interval = min(next_interval, 365); int(next_interval): for a      *)
(* non-negative value the truncation of the capped value is the capped     *)
(* truncation.                                                             *)
calculate_next_review_date(s, last_review_date, performance_rating, current_interval, ease_factor) ==
    last_review_date
    + Min(next_interval_raw(s, performance_rating, current_interval, ease_factor) \div 10000,
          MaxIntervalDays)

ease_delta_bug_shifted(performance_rating) ==
    20 - (5 - performance_rating) * (8 + (5 - performance_rating) * 2)

(* 0.1 - (5 - r) * (0.08 + (5 - r) * 0.02), in hundredths. *)
ease_delta(performance_rating) ==
    10 - (5 - performance_rating) * (8 + (5 - performance_rating) * 2)

new_ease_bug_fail30(s, ease_factor, performance_rating) ==
    Min(IF performance_rating >= PassRating
        THEN Max(ease_factor + ease_delta(performance_rating), s.min_ease_factor)
        ELSE Max(ease_factor - 30, s.min_ease_factor),
        s.max_ease_factor)

new_ease(s, ease_factor, performance_rating) ==
    Min(IF performance_rating >= PassRating
        THEN Max(ease_factor + ease_delta(performance_rating), s.min_ease_factor)
        ELSE Max(ease_factor - 20, s.min_ease_factor),
        s.max_ease_factor)

new_reps_bug_keep(repetitions, performance_rating) ==
    IF performance_rating >= PassRating THEN repetitions + 1 ELSE repetitions

new_reps(repetitions, performance_rating) ==
    IF performance_rating >= PassRating THEN repetitions + 1 ELSE 0

update_spaced_repetition_bug_oldease(s, current_interval, ease_factor, repetitions, performance_rating) ==
    LET e == new_ease(s, ease_factor, performance_rating)
        n == new_reps(repetitions, performance_rating)
    IN  [interval_days |-> IF n = 1 THEN s.initial_interval
                           ELSE IF n = 2 THEN SecondInterval
                           ELSE (current_interval * ease_factor) \div 100,
         ease_factor |-> e,
         repetitions |-> n]

update_spaced_repetition_bug_nocap(s, current_interval, ease_factor, repetitions, performance_rating) ==
    LET e == IF performance_rating >= PassRating
             THEN Max(ease_factor + ease_delta(performance_rating), s.min_ease_factor)
             ELSE Max(ease_factor - 20, s.min_ease_factor)
        n == new_reps(repetitions, performance_rating)
    IN  [interval_days |-> IF n = 1 THEN s.initial_interval
                           ELSE IF n = 2 THEN SecondInterval
                           ELSE (current_interval * e) \div 100,
         ease_factor |-> e,
         repetitions |-> n]

update_spaced_repetition(s, current_interval, ease_factor, repetitions, performance_rating) ==
    LET e == new_ease(s, ease_factor, performance_rating)
        n == new_reps(repetitions, performance_rating)
    IN  [interval_days |-> IF n = 1 THEN s.initial_interval
                           ELSE IF n = 2 THEN SecondInterval
                           ELSE (current_interval * e) \div 100,
         ease_factor |-> e,
         repetitions |-> n]

-----------------------------------------------------------------------------
(* The tables.  The model classes (models/scheduled_review.py,             *)
(* models/review_history.py, models/user_progress.py, models/achievement.py)*)
(* are not part of the sources at hand: column defaults are taken from the *)
(* specification's data model.                                             *)

Users == {"anonymous"}

NoUser == "null"

Mistakes == {"m1", "m2"}

NoRow == [exists |-> FALSE]

(* UserProgress(user_id = u): a row with every counter at its default. *)
NewUserProgress ==
    [exists |-> TRUE, current_streak |-> 0, longest_streak |-> 0,
     total_reviews |-> 0, total_points |-> 0, last_review_date |-> NoDate]

(* ScheduledReview(...): is_completed defaults to false. *)
NewScheduledReview(mistake_id, scheduled_date, interval_days, ease_factor, repetitions) ==
    [mistake_id |-> mistake_id, scheduled_date |-> scheduled_date,
     interval_days |-> interval_days, ease_factor |-> ease_factor,
     repetitions |-> repetitions, is_completed |-> FALSE]

(* ReviewHistory(mistake_id, performance_rating, ...): complete_reviews    *)
(* passes no user_id, so the row gets the column's default (owner), and    *)
(* review_date defaults to the time of the insert.                         *)
NewReviewHistory(mistake_id, performance_rating, owner, now) ==
    [mistake_id |-> mistake_id, user_id |-> owner,
     performance_rating |-> performance_rating, review_date |-> now]

(* The database as one value: what the functions below read and write. *)
Database(r, h, p, a) ==
    [reviews |-> r, history |-> h, progress |-> p, achievements |-> a]

-----------------------------------------------------------------------------
(* GamificationEngine (services/gamification.py). *)

StreakCap == 365
Streak7 == 7
Streak30 == 30
Reviews100 == 100
AchievementRowPoints == 50

Actions == {"mistake_uploaded", "review_completed", "correct_answer", "unknown"}

(* POINTS_CONFIG.get(action, 0) *)
POINTS_CONFIG(action) ==
    CASE action = "mistake_uploaded" -> 10
      [] action = "review_completed" -> 5
      [] action = "correct_answer" -> 15
      [] OTHER -> 0

(* settings.gamification.achievements.<type>["points"] *)
AchievementPoints(achievement_type) ==
    CASE achievement_type = "streak_7_days" -> 50
      [] achievement_type = "streak_30_days" -> 200
      [] achievement_type = "total_reviews_100" -> 150
      [] OTHER -> 100

(* db.query(UserProgress).filter(user_id == user_id).first(), or a new row *)
progress_of(db, user_id) ==
    IF db.progress[user_id].exists THEN db.progress[user_id] ELSE NewUserProgress

award_points_bug_noguard(db, user_id, action, multiplier) ==
    LET total_points == POINTS_CONFIG(action) * multiplier
        row == progress_of(db, user_id)
    IN  [ret |-> total_points,
         db |-> IF total_points # 0
                THEN [db EXCEPT !.progress[user_id] =
                         [row EXCEPT !.total_points = row.total_points + total_points]]
                ELSE db]

award_points(db, user_id, action, multiplier) ==
    LET total_points == POINTS_CONFIG(action) * multiplier
        row == progress_of(db, user_id)
    IN  [ret |-> total_points,
         db |-> IF total_points > 0
                THEN [db EXCEPT !.progress[user_id] =
                         [row EXCEPT !.total_points = row.total_points + total_points]]
                ELSE db]

(* recent_reviews: the user's ReviewHistory rows dated today or later. *)
recent_reviews(db, user_id, now) ==
    { i \in 1..Len(db.history) :
        /\ db.history[i].user_id = user_id
        /\ db.history[i].review_date >= now }

update_streak_row_bug_nocap(row, recent, now) ==
    IF recent
    THEN [row EXCEPT !.last_review_date = now,
                     !.current_streak = row.current_streak + 1,
                     !.longest_streak = Max(row.longest_streak, row.current_streak + 1)]
    ELSE [row EXCEPT !.current_streak = 0]

update_streak_row_bug_stale(row, recent, now) ==
    IF recent
    THEN [row EXCEPT !.last_review_date = now,
                     !.current_streak = Min(row.current_streak + 1, StreakCap),
                     !.longest_streak = Max(row.longest_streak, row.current_streak)]
    ELSE [row EXCEPT !.current_streak = 0]

update_streak_row_bug_nomax(row, recent, now) ==
    IF recent
    THEN [row EXCEPT !.last_review_date = now,
                     !.current_streak = Min(row.current_streak + 1, StreakCap),
                     !.longest_streak = Min(row.current_streak + 1, StreakCap)]
    ELSE [row EXCEPT !.current_streak = 0]

(* Lines 57-62: what update_streak does to the row, recent being           *)
(* "recent_reviews is not empty".                                          *)
update_streak_row(row, recent, now) ==
    IF recent
    THEN [row EXCEPT !.last_review_date = now,
                     !.current_streak = Min(row.current_streak + 1, StreakCap),
                     !.longest_streak = Max(row.longest_streak,
                                            Min(row.current_streak + 1, StreakCap))]
    ELSE [row EXCEPT !.current_streak = 0]

update_streak(db, user_id, now) ==
    [db EXCEPT !.progress[user_id] =
        update_streak_row(progress_of(db, user_id),
                          recent_reviews(db, user_id, now) # {}, now)]

has_achievement(db, user_id, achievement_type) ==
    \E i \in 1..Len(db.achievements) :
        /\ db.achievements[i].user_id = user_id
        /\ db.achievements[i].achievement_type = achievement_type

NewAchievement(user_id, achievement_type) ==
    [user_id |-> user_id, achievement_type |-> achievement_type,
     points_awarded |-> AchievementRowPoints]

award_achievement_bug_always(db, user_id, achievement_type) ==
    [db EXCEPT !.achievements = Append(@, NewAchievement(user_id, achievement_type))]

(* _award_achievement *)
award_achievement(db, user_id, achievement_type) ==
    IF has_achievement(db, user_id, achievement_type)
    THEN db
    ELSE [db EXCEPT !.achievements = Append(@, NewAchievement(user_id, achievement_type))]

(* The dictionaries check_achievements appends to new_achievements; name   *)
(* stands for the display name, one per achievement type.                  *)
AchievementInfo(achievement_type) ==
    CASE achievement_type = "streak_7_days" ->
           [type |-> "streak", name |-> "streak_7_days", points |-> 50]
      [] achievement_type = "streak_30_days" ->
           [type |-> "streak", name |-> "streak_30_days", points |-> 200]
      [] OTHER ->
           [type |-> "total_reviews", name |-> "total_reviews_100", points |-> 150]

check_achievements_bug_strict(db, user_id) ==
    IF ~ db.progress[user_id].exists
    THEN [ret |-> <<>>, db |-> db]
    ELSE
      LET row == db.progress[user_id]
          c1 == row.current_streak > Streak7
          c2 == row.current_streak >= Streak30
          c3 == row.total_reviews >= Reviews100
          db1 == IF c1 THEN award_achievement(db, user_id, "streak_7_days") ELSE db
          db2 == IF c2 THEN award_achievement(db1, user_id, "streak_30_days") ELSE db1
          db3 == IF c3 THEN award_achievement(db2, user_id, "total_reviews_100") ELSE db2
      IN  [ret |-> (IF c1 THEN <<AchievementInfo("streak_7_days")>> ELSE <<>>)
                   \o (IF c2 THEN <<AchievementInfo("streak_30_days")>> ELSE <<>>)
                   \o (IF c3 THEN <<AchievementInfo("total_reviews_100")>> ELSE <<>>),
           db |-> db3]

check_achievements(db, user_id) ==
    IF ~ db.progress[user_id].exists
    THEN [ret |-> <<>>, db |-> db]
    ELSE
      LET row == db.progress[user_id]
          c1 == row.current_streak >= Streak7
          c2 == row.current_streak >= Streak30
          c3 == row.total_reviews >= Reviews100
          db1 == IF c1 THEN award_achievement(db, user_id, "streak_7_days") ELSE db
          db2 == IF c2 THEN award_achievement(db1, user_id, "streak_30_days") ELSE db1
          db3 == IF c3 THEN award_achievement(db2, user_id, "total_reviews_100") ELSE db2
      IN  [ret |-> (IF c1 THEN <<AchievementInfo("streak_7_days")>> ELSE <<>>)
                   \o (IF c2 THEN <<AchievementInfo("streak_30_days")>> ELSE <<>>)
                   \o (IF c3 THEN <<AchievementInfo("total_reviews_100")>> ELSE <<>>),
           db |-> db3]

-----------------------------------------------------------------------------
(* complete_reviews (api/routes/reviews.py).                               *)
(*                                                                         *)
(* One request uses one session.  award_points commits (5 points are       *)
(* always more than 0), so the closed row, its successor and the history   *)
(* row added before it are flushed and committed inside every iteration,   *)
(* before the next query of the loop: run alone, the handler's queries     *)
(* always see its earlier writes.                                          *)

(* .filter(mistake_id == ..., is_completed == False) *)
pending_rows(rows, mistake_id) ==
    { i \in 1..Len(rows) :
        /\ rows[i].mistake_id = mistake_id
        /\ ~ rows[i].is_completed }

(* .first(): the query has no ORDER BY; the oldest row is taken.  0 is None. *)
first_pending(rows, mistake_id) ==
    IF pending_rows(rows, mistake_id) = {}
    THEN 0
    ELSE CHOOSE i \in pending_rows(rows, mistake_id) :
             \A j \in pending_rows(rows, mistake_id) : i <= j

close_and_schedule_bug_oldparams(rows, idx, next_review_date, upd) ==
    LET closed == [rows EXCEPT ![idx].is_completed = TRUE]
    IN  IF next_review_date # NoDate
        THEN Append(closed, NewScheduledReview(rows[idx].mistake_id, next_review_date,
                                rows[idx].interval_days, upd.ease_factor, upd.repetitions))
        ELSE closed

close_and_schedule_bug_noclose(rows, idx, next_review_date, upd) ==
    IF next_review_date # NoDate
    THEN Append(rows, NewScheduledReview(rows[idx].mistake_id, next_review_date,
                          upd.interval_days, upd.ease_factor, upd.repetitions))
    ELSE rows

(* Lines 148-161: close the row found, add its successor. *)
close_and_schedule(rows, idx, next_review_date, upd) ==
    LET closed == [rows EXCEPT ![idx].is_completed = TRUE]
    IN  IF next_review_date # NoDate
        THEN Append(closed, NewScheduledReview(rows[idx].mistake_id, next_review_date,
                                upd.interval_days, upd.ease_factor, upd.repetitions))
        ELSE closed

(* One iteration of the loop, lines 116-188. *)
complete_session_bug_award(db, session, now, owner, s) ==
    LET idx == first_pending(db.reviews, session.mistake_id)
    IN  IF idx = 0
        THEN [db |-> award_points(db, "anonymous", "review_completed", 1).db,
              completed |-> <<>>]
        ELSE
          LET row == db.reviews[idx]
              upd == update_spaced_repetition(s, row.interval_days, row.ease_factor,
                         row.repetitions, session.performance_rating)
              next_review_date ==
                  calculate_next_review_date(s, now, session.performance_rating,
                      upd.interval_days, upd.ease_factor)
              db1 == [db EXCEPT
                        !.reviews = close_and_schedule(@, idx, next_review_date, upd),
                        !.history = Append(@, NewReviewHistory(row.mistake_id,
                                        session.performance_rating, owner, now))]
              pts == award_points(db1, "anonymous", "review_completed", 1)
              db3 == update_streak(pts.db, "anonymous", now)
              ach == check_achievements(db3, "anonymous")
          IN  [db |-> ach.db,
               completed |-> << [mistake_id |-> session.mistake_id,
                                 points_awarded |-> pts.ret,
                                 new_achievements |-> ach.ret,
                                 next_review_date |-> next_review_date] >>]

complete_session_bug_nohist(db, session, now, owner, s) ==
    LET idx == first_pending(db.reviews, session.mistake_id)
    IN  IF idx = 0
        THEN [db |-> db, completed |-> <<>>]
        ELSE
          LET row == db.reviews[idx]
              upd == update_spaced_repetition(s, row.interval_days, row.ease_factor,
                         row.repetitions, session.performance_rating)
              next_review_date ==
                  calculate_next_review_date(s, now, session.performance_rating,
                      upd.interval_days, upd.ease_factor)
              db1 == [db EXCEPT
                        !.reviews = close_and_schedule(@, idx, next_review_date, upd),
                        !.history = IF session.performance_rating >= PassRating
                                    THEN Append(@, NewReviewHistory(row.mistake_id,
                                             session.performance_rating, owner, now))
                                    ELSE @]
              pts == award_points(db1, "anonymous", "review_completed", 1)
              db3 == update_streak(pts.db, "anonymous", now)
              ach == check_achievements(db3, "anonymous")
          IN  [db |-> ach.db,
               completed |-> << [mistake_id |-> session.mistake_id,
                                 points_awarded |-> pts.ret,
                                 new_achievements |-> ach.ret,
                                 next_review_date |-> next_review_date] >>]

complete_session(db, session, now, owner, s) ==
    LET idx == first_pending(db.reviews, session.mistake_id)
    IN  IF idx = 0
        THEN [db |-> db, completed |-> <<>>]
        ELSE
          LET row == db.reviews[idx]
              upd == update_spaced_repetition(s, row.interval_days, row.ease_factor,
                         row.repetitions, session.performance_rating)
              next_review_date ==
                  calculate_next_review_date(s, now, session.performance_rating,
                      upd.interval_days, upd.ease_factor)
              db1 == [db EXCEPT
                        !.reviews = close_and_schedule(@, idx, next_review_date, upd),
                        !.history = Append(@, NewReviewHistory(row.mistake_id,
                                        session.performance_rating, owner, now))]
              pts == award_points(db1, "anonymous", "review_completed", 1)
              db3 == update_streak(pts.db, "anonymous", now)
              ach == check_achievements(db3, "anonymous")
          IN  [db |-> ach.db,
               completed |-> << [mistake_id |-> session.mistake_id,
                                 points_awarded |-> pts.ret,
                                 new_achievements |-> ach.ret,
                                 next_review_date |-> next_review_date] >>]

RECURSIVE complete_loop(_, _, _, _, _, _)
complete_loop(db, sessions, done, now, owner, s) ==
    IF sessions = <<>>
    THEN [db |-> db, completed_reviews |-> done]
    ELSE LET r == complete_session(db, Head(sessions), now, owner, s)
         IN  complete_loop(r.db, Tail(sessions), done \o r.completed, now, owner, s)

RECURSIVE sum_points(_)
sum_points(completed) ==
    IF completed = <<>> THEN 0
    ELSE Head(completed).points_awarded + sum_points(Tail(completed))

complete_reviews(db, review_sessions, now, owner, s) ==
    LET r == complete_loop(db, review_sessions, <<>>, now, owner, s)
    IN  [db |-> r.db,
         ret |-> [completed_reviews |-> r.completed_reviews,
                  total_points_awarded |-> sum_points(r.completed_reviews)]]

-----------------------------------------------------------------------------
(* The system, requests run one after another. *)

MaxRows == 3
MaxDay == 1

(* performance_rating is declared int: the request model accepts any     *)
(* integer.  The ratings submitted are one per branch of the scheduler    *)
(* (below 3, 3, 4, above 4) on the 0-5 scale, and one on each side of it.  *)
RequestRatings == {MinRating - 1, MinRating, PassRating, PassRating + 1, MaxRating, MaxRating + 1}

ReviewSessions == [mistake_id : Mistakes, performance_rating : RequestRatings]

(* The request bodies of at most n sessions. *)
Batches(n) == UNION { [1..k -> ReviewSessions] : k \in 0..n }

TheDb == Database(reviews, history, progress, achievements)

SetDb(db) ==
    /\ reviews' = db.reviews
    /\ history' = db.history
    /\ progress' = db.progress
    /\ achievements' = db.achievements

(* schedule_initial_reviews (services/tasks.py): the first row of an item. *)
InitialReview(mistake_id, now, s) ==
    NewScheduledReview(mistake_id, now + 1, s.initial_interval,
                       s.initial_ease_factor, 0)

(* The row five reviews rated 5 leave behind under DefaultSettings:        *)
(* (1, 2.5, 0) -> (1, 2.6, 1) -> (6, 2.7, 2) -> (16, 2.8, 3) ->            *)
(* (46, 2.9, 4) -> (138, 3.0, 5).                                          *)
LongReview(mistake_id) ==
    NewScheduledReview(mistake_id, 0, 138, 300, 5)

(* The pending row of item m1 at the start: the one schedule_initial_reviews *)
(* wrote, one left by two successful reviews, or one left by five.  Item   *)
(* m2 has no row.                                                          *)
InitReviews(s) ==
    { << InitialReview("m1", 0, s) >>,
      << NewScheduledReview("m1", 0, SecondInterval, s.initial_ease_factor, 2) >>,
      << LongReview("m1") >> }

(* POST /complete, the whole handler. *)
CompleteReviewsOf(batch) ==
    /\ LET r == complete_reviews(TheDb, batch, today, histUser, cfg)
       IN  /\ SetDb(r.db)
           /\ resp' = [op |-> "complete_reviews",
                       items |-> [i \in 1..Len(batch) |-> batch[i].mistake_id],
                       ret |-> r.ret]
    /\ UNCHANGED <<cfg, histUser, today, pc, sess, params, call>>

(* A request of as many sessions as the table has room for rows. *)
CompleteReviews ==
    \E batch \in Batches(MaxRows - Len(reviews)) : CompleteReviewsOf(batch)

AdvanceDay ==
    /\ today < MaxDay
    /\ today' = today + 1
    /\ resp' = [op |-> "advance_day"]
    /\ UNCHANGED <<cfg, histUser, reviews, history, progress, achievements,
                   pc, sess, params, call>>

(* histUser: the ReviewHistory model is not in src; its user_id default is *)
(* either the user the handler works for or NULL.                          *)
Init ==
    /\ cfg = DefaultSettings
    /\ histUser \in {"anonymous", NoUser}
    /\ today = 0
    /\ reviews \in InitReviews(cfg)
    /\ history = <<>>
    /\ progress = [u \in Users |-> NoRow]
    /\ achievements = <<>>
    /\ resp = NoCall
    /\ pc = <<>>
    /\ sess = <<>>
    /\ params = NoCall
    /\ call = NoCall

Next ==
    \/ CompleteReviews
    \/ AdvanceDay

Spec == Init /\ [][Next]_vars

-----------------------------------------------------------------------------
(* The gamification engine: its three operations called in any order, one  *)
(* at a time, between review completions and day changes.                  *)

GamMaxRows == 3
MaxStreak == 8
MaxPoints == 10

GamBatches ==
    { << [mistake_id |-> "m1", performance_rating |-> r] >> : r \in {2, 5} }

Multipliers == {-1, 0, 1, 2}

GamCompleteReviews ==
    /\ Len(reviews) < GamMaxRows
    /\ \E batch \in GamBatches : CompleteReviewsOf(batch)

AwardPoints(u, a, m) ==
    /\ progress_of(TheDb, u).total_points + POINTS_CONFIG(a) * m <= MaxPoints
    /\ LET r == award_points(TheDb, u, a, m)
       IN  /\ SetDb(r.db)
           /\ resp' = [op |-> "award_points", user |-> u, action |-> a,
                       multiplier |-> m, ret |-> r.ret]
    /\ UNCHANGED <<cfg, histUser, today, pc, sess, params, call>>

(* A streak is followed from 0 up to MaxStreak, and at the program's cap.  *)
StreakFollowed(current_streak) ==
    current_streak < MaxStreak \/ current_streak >= StreakCap - 1

UpdateStreak(u) ==
    /\ StreakFollowed(progress_of(TheDb, u).current_streak)
    /\ SetDb(update_streak(TheDb, u, today))
    /\ resp' = [op |-> "update_streak", user |-> u]
    /\ UNCHANGED <<cfg, histUser, today, pc, sess, params, call>>

(* inserted: the types of the Achievement rows this call added; repeat:    *)
(* the call before this one was check_achievements for the same user.      *)
CheckAchievements(u) ==
    /\ LET r == check_achievements(TheDb, u)
       IN  /\ SetDb(r.db)
           /\ resp' = [op |-> "check_achievements", user |-> u, ret |-> r.ret,
                       inserted |-> [i \in 1..(Len(r.db.achievements) - Len(achievements)) |->
                                        r.db.achievements[Len(achievements) + i].achievement_type],
                       repeat |-> (resp.op = "check_achievements" /\ resp.user = u)]
    /\ UNCHANGED <<cfg, histUser, today, pc, sess, params, call>>

NextGam ==
    \/ GamCompleteReviews
    \/ \E u \in Users : \E a \in Actions : \E m \in Multipliers : AwardPoints(u, a, m)
    \/ \E u \in Users : UpdateStreak(u)
    \/ \E u \in Users : CheckAchievements(u)
    \/ AdvanceDay

SpecGam == Init /\ [][NextGam]_vars

-----------------------------------------------------------------------------
(* The gamification functions on progress rows taken from a bounded set:   *)
(* streaks just below the achievement thresholds and the cap, review       *)
(* counts on both sides of 100.                                            *)

ProgressRows ==
    UNION { { [NewUserProgress EXCEPT !.current_streak = c, !.longest_streak = l,
                                      !.total_reviews = t] :
                l \in {c, StreakCap}, t \in {5, Reviews100} } :
            c \in {Streak7 - 1, Streak30 - 1, StreakCap - 1} }

InitProg ==
    /\ cfg = DefaultSettings
    /\ histUser \in {"anonymous", NoUser}
    /\ today = 0
    /\ reviews = << InitialReview("m1", 0, cfg) >>
    /\ history = <<>>
    /\ progress \in [Users -> ProgressRows]
    /\ achievements = <<>>
    /\ resp = NoCall
    /\ pc = <<>>
    /\ sess = <<>>
    /\ params = NoCall
    /\ call = NoCall

SpecProg == InitProg /\ [][NextGam]_vars

-----------------------------------------------------------------------------
(* Concurrent requests.  Every request of POST /complete gets a session of *)
(* its own from get_db (database/connection.py: autocommit = False,        *)
(* autoflush = False), and the handler is a coroutine that awaits between  *)
(* its database calls.  A request is cut into one step per database call   *)
(* (a query, a commit) or per group of in-memory statements between two    *)
(* of them.  A query reads what is committed; changes made to loaded       *)
(* objects and added objects stay in the session until db.commit() writes  *)
(* them: an UPDATE of the attributes that changed, with the values the     *)
(* session computed, and an INSERT per added object.  The handler takes no *)
(* lock (no with_for_update, no version column in the queries).            *)
(* check_achievements is one step: no threshold is reached in these runs,  *)
(* so it only reads.                                                       *)

NumRequests == 2

Requests == 1..NumRequests

(* The schedulers' arithmetic plays no part in the interleavings: every    *)
(* concurrent request rates its review 2.                                  *)
ConcRatings == {2}

NoUpdate == [interval_days |-> 0, ease_factor |-> 0, repetitions |-> 0]

NewSession(session) ==
    [session |-> session, idx |-> 0, upd |-> NoUpdate, next_review_date |-> NoDate,
     closed |-> {}, added |-> <<>>, hist |-> <<>>, recent |-> FALSE,
     loaded |-> NoRow, local |-> NoRow, ret |-> <<>>]

(* The UPDATE a flush emits for a loaded row: the changed attributes only. *)
flush_progress(stored, loaded, local) ==
    IF ~ loaded.exists
    THEN local
    ELSE [stored EXCEPT
            !.current_streak = IF local.current_streak # loaded.current_streak
                               THEN local.current_streak ELSE @,
            !.longest_streak = IF local.longest_streak # loaded.longest_streak
                               THEN local.longest_streak ELSE @,
            !.total_points = IF local.total_points # loaded.total_points
                             THEN local.total_points ELSE @,
            !.last_review_date = IF local.last_review_date # loaded.last_review_date
                                 THEN local.last_review_date ELSE @]

(* db.commit() of request p: flush the session, then commit. *)
Commit(p) ==
    /\ reviews' = [i \in 1..Len(reviews) |->
                      IF i \in sess[p].closed
                      THEN [reviews[i] EXCEPT !.is_completed = TRUE]
                      ELSE reviews[i]] \o sess[p].added
    /\ history' = history \o sess[p].hist
    /\ progress' = IF sess[p].local.exists
                   THEN [progress EXCEPT !["anonymous"] =
                            flush_progress(@, sess[p].loaded, sess[p].local)]
                   ELSE progress

Committed(p) ==
    [sess[p] EXCEPT !.closed = {}, !.added = <<>>, !.hist = <<>>,
                    !.loaded = NoRow, !.local = NoRow]

ConcFrame == UNCHANGED <<cfg, histUser, today, resp, params, call>>

(* Lines 118-130. *)
Find(p) ==
    /\ pc[p] = "find"
    /\ LET idx == first_pending(reviews, sess[p].session.mistake_id)
       IN  /\ sess' = [sess EXCEPT ![p].idx = idx]
           /\ pc' = [pc EXCEPT ![p] = IF idx = 0 THEN "final" ELSE "mark"]
    /\ UNCHANGED <<reviews, history, progress, achievements>>
    /\ ConcFrame

Mark_bug_commit(p) ==
    /\ pc[p] = "mark"
    /\ LET row == reviews[sess[p].idx]
           r == sess[p].session.performance_rating
           upd == update_spaced_repetition(cfg, row.interval_days, row.ease_factor,
                      row.repetitions, r)
       IN  sess' = [sess EXCEPT ![p].upd = upd,
                                ![p].next_review_date =
                                    calculate_next_review_date(cfg, today, r,
                                        upd.interval_days, upd.ease_factor)]
    /\ reviews' = [reviews EXCEPT ![sess[p].idx].is_completed = TRUE]
    /\ pc' = [pc EXCEPT ![p] = "add"]
    /\ UNCHANGED <<history, progress, achievements>>
    /\ ConcFrame

(* Lines 133-150. *)
Mark(p) ==
    /\ pc[p] = "mark"
    /\ LET row == reviews[sess[p].idx]
           r == sess[p].session.performance_rating
           upd == update_spaced_repetition(cfg, row.interval_days, row.ease_factor,
                      row.repetitions, r)
       IN  sess' = [sess EXCEPT ![p].upd = upd,
                                ![p].next_review_date =
                                    calculate_next_review_date(cfg, today, r,
                                        upd.interval_days, upd.ease_factor),
                                ![p].closed = {sess[p].idx}]
    /\ pc' = [pc EXCEPT ![p] = "add"]
    /\ UNCHANGED <<reviews, history, progress, achievements>>
    /\ ConcFrame

(* Lines 153-170. *)
Add(p) ==
    /\ pc[p] = "add"
    /\ LET row == reviews[sess[p].idx]
           u == sess[p].upd
       IN  sess' = [sess EXCEPT
                      ![p].added = IF sess[p].next_review_date # NoDate
                                   THEN << NewScheduledReview(row.mistake_id,
                                              sess[p].next_review_date, u.interval_days,
                                              u.ease_factor, u.repetitions) >>
                                   ELSE <<>>,
                      ![p].hist = << NewReviewHistory(row.mistake_id,
                                        sess[p].session.performance_rating,
                                        histUser, today) >>]
    /\ pc' = [pc EXCEPT ![p] = "award"]
    /\ UNCHANGED <<reviews, history, progress, achievements>>
    /\ ConcFrame

(* award_points, lines 25-35. *)
AwardLoad(p) ==
    /\ pc[p] = "award"
    /\ LET row == progress_of(TheDb, "anonymous")
           pts == POINTS_CONFIG("review_completed")
       IN  sess' = [sess EXCEPT
                      ![p].loaded = progress["anonymous"],
                      ![p].local = [row EXCEPT !.total_points = @ + pts],
                      ![p].ret = << pts >>]
    /\ pc' = [pc EXCEPT ![p] = "award_commit"]
    /\ UNCHANGED <<reviews, history, progress, achievements>>
    /\ ConcFrame

(* award_points, line 36. *)
AwardCommit(p) ==
    /\ pc[p] = "award_commit"
    /\ Commit(p)
    /\ sess' = [sess EXCEPT ![p] = Committed(p)]
    /\ pc' = [pc EXCEPT ![p] = "streak_query"]
    /\ UNCHANGED achievements
    /\ ConcFrame

(* update_streak, lines 42-49. *)
StreakQuery(p) ==
    /\ pc[p] = "streak_query"
    /\ sess' = [sess EXCEPT ![p].recent =
                   (recent_reviews(TheDb, "anonymous", today) # {})]
    /\ pc' = [pc EXCEPT ![p] = "streak_load"]
    /\ UNCHANGED <<reviews, history, progress, achievements>>
    /\ ConcFrame

(* update_streak, lines 51-62. *)
StreakLoad(p) ==
    /\ pc[p] = "streak_load"
    /\ sess' = [sess EXCEPT
                  ![p].loaded = progress["anonymous"],
                  ![p].local = update_streak_row(progress_of(TheDb, "anonymous"),
                                                 sess[p].recent, today)]
    /\ pc' = [pc EXCEPT ![p] = "streak_commit"]
    /\ UNCHANGED <<reviews, history, progress, achievements>>
    /\ ConcFrame

(* update_streak, line 64. *)
StreakCommit(p) ==
    /\ pc[p] = "streak_commit"
    /\ Commit(p)
    /\ sess' = [sess EXCEPT ![p] = Committed(p)]
    /\ pc' = [pc EXCEPT ![p] = "achieve"]
    /\ UNCHANGED achievements
    /\ ConcFrame

(* check_achievements, lines 66-86 and 88-103. *)
Achieve(p) ==
    /\ pc[p] = "achieve"
    /\ SetDb(check_achievements(TheDb, "anonymous").db)
    /\ pc' = [pc EXCEPT ![p] = "final"]
    /\ UNCHANGED sess
    /\ ConcFrame

(* Line 190. *)
FinalCommit(p) ==
    /\ pc[p] = "final"
    /\ Commit(p)
    /\ sess' = [sess EXCEPT ![p] = Committed(p)]
    /\ pc' = [pc EXCEPT ![p] = "done"]
    /\ UNCHANGED achievements
    /\ ConcFrame

(* A statement of request p raises: the handler catches nothing, the      *)
(* request ends with an error and get_db closes the session, which drops   *)
(* what the session had not committed.  A commit that raises commits       *)
(* nothing.                                                                *)
Fail(p) ==
    /\ pc[p] \notin {"done", "failed"}
    /\ sess' = [sess EXCEPT ![p] = NewSession(sess[p].session)]
    /\ pc' = [pc EXCEPT ![p] = "failed"]
    /\ UNCHANGED <<reviews, history, progress, achievements>>
    /\ ConcFrame

(* The runs start after one review of another item was completed: the     *)
(* user's UserProgress row exists.  Item m1 has one pending row, item m2   *)
(* one or none.  Every request names one item.                             *)
InitConc ==
    /\ cfg = DefaultSettings
    /\ histUser \in {"anonymous", NoUser}
    /\ today = 0
    /\ reviews \in { << InitialReview("m1", 0, cfg) >>,
                      << InitialReview("m1", 0, cfg), InitialReview("m2", 0, cfg) >> }
    /\ history = <<>>
    /\ progress = [u \in Users |->
                      [NewUserProgress EXCEPT
                          !.total_points = POINTS_CONFIG("review_completed")]]
    /\ achievements = <<>>
    /\ resp = NoCall
    /\ sess \in [Requests -> { NewSession(x) :
                     x \in [mistake_id : Mistakes, performance_rating : ConcRatings] }]
    /\ pc = [p \in Requests |-> "find"]
    /\ params = NoCall
    /\ call = NoCall

NextConc ==
    \E p \in Requests :
        \/ Find(p)
        \/ Mark(p)
        \/ Add(p)
        \/ AwardLoad(p)
        \/ AwardCommit(p)
        \/ StreakQuery(p)
        \/ StreakLoad(p)
        \/ StreakCommit(p)
        \/ Achieve(p)
        \/ FinalCommit(p)
        \/ Fail(p)

SpecConc == InitConc /\ [][NextConc]_vars

-----------------------------------------------------------------------------
(* Scheduler runs: the two pure functions applied to inputs drawn from     *)
(* bounded sets, update_spaced_repetition chained on its own results.      *)

InitParams(s) ==
    [interval_days : {1, 2, SecondInterval},
     ease_factor : {s.min_ease_factor, s.initial_ease_factor, s.max_ease_factor},
     repetitions : 0..2]

UpdateSpacedRepetition(r) ==
    /\ params.interval_days <= MaxInterval
    /\ params.repetitions < MaxReps
    /\ LET res == update_spaced_repetition(cfg, params.interval_days,
                      params.ease_factor, params.repetitions, r)
       IN  /\ call' = [op |-> "update", input |-> params, rating |-> r, out |-> res]
           /\ params' = res
    /\ UNCHANGED <<cfg, histUser, today, reviews, history, progress,
                   achievements, resp, pc, sess>>

CalculateNextReviewDate(r, last) ==
    /\ params.interval_days <= MaxInterval
    /\ call' = [op |-> "next_date", input |-> params, rating |-> r, last |-> last,
                out |-> calculate_next_review_date(cfg, last, r,
                            params.interval_days, params.ease_factor)]
    /\ UNCHANGED <<cfg, histUser, today, reviews, history, progress,
                   achievements, resp, pc, sess, params>>

InitSched ==
    /\ cfg \in SpacedRepetitionSettings
    /\ params \in InitParams(cfg)
    /\ call = NoCall
    /\ histUser = "anonymous"
    /\ today = 0
    /\ reviews = <<>>
    /\ history = <<>>
    /\ progress = <<>>
    /\ achievements = <<>>
    /\ resp = NoCall
    /\ pc = <<>>
    /\ sess = <<>>

NextSched ==
    \/ \E r \in Ratings : UpdateSpacedRepetition(r)
    \/ \E r \in Ratings : \E last \in 0..MaxLastDay : CalculateNextReviewDate(r, last)

SpecSched == InitSched /\ [][NextSched]_vars

-----------------------------------------------------------------------------
(* The claims. *)

PendingCount(m) == Cardinality(pending_rows(reviews, m))

HasRows(m) == \E i \in 1..Len(reviews) : reviews[i].mistake_id = m

(* C1: an item that starts with exactly one pending ScheduledReview row    *)
(* (every item that has rows at all: Init gives an item one pending row or *)
(* none) has exactly one pending row after any sequence of complete_reviews*)
(* calls, whatever the batches and ratings.                                *)
C1_ExactlyOnePending ==
    \A m \in Mistakes : HasRows(m) => PendingCount(m) = 1

(* C1 witness: one call completed the same item twice. *)
C1_Witness ==
    /\ resp.op = "complete_reviews"
    /\ Len(resp.ret.completed_reviews) = 2
    /\ resp.ret.completed_reviews[1].mistake_id = "m1"
    /\ resp.ret.completed_reviews[2].mistake_id = "m1"
    /\ Len(reviews) = 3
    /\ PendingCount("m1") = 1

(* C2: when two complete_reviews requests for the same item run with their *)
(* steps interleaved, the item never has two pending rows.                 *)
C2_NeverTwoPending ==
    \A m \in Mistakes : PendingCount(m) <= 1

(* C3: there is at most one Achievement row per (user_id, achievement_type)*)
(* in every state reached by update_streak, award_points and               *)
(* check_achievements calls run one at a time.                             *)
C3_AchievementUnique ==
    \A i, j \in 1..Len(achievements) :
        (/\ achievements[i].user_id = achievements[j].user_id
         /\ achievements[i].achievement_type = achievements[j].achievement_type)
        => i = j

(* C3 witness: check_achievements ran again with the threshold still met   *)
(* and the row already there.                                              *)
C3_Witness ==
    /\ resp.op = "check_achievements"
    /\ resp.ret # <<>>
    /\ resp.inserted = <<>>
    /\ Len(achievements) = 1

RetNames(ret) == [i \in 1..Len(ret) |-> ret[i].name]

(* C4: check_achievements returns only the achievements whose row it       *)
(* inserted during the call; called again right after a call for the same  *)
(* user (the progress unchanged in between) it returns an empty list.      *)
C4_ReturnsOnlyNewUnlocks ==
    resp.op = "check_achievements" =>
        /\ RetNames(resp.ret) = resp.inserted
        /\ resp.repeat => resp.ret = <<>>

RECURSIVE SumAchievementPoints(_)
SumAchievementPoints(types) ==
    IF types = <<>> THEN 0
    ELSE AchievementPoints(Head(types)) + SumAchievementPoints(Tail(types))

(* C5: every achievement a check_achievements call newly unlocks adds its  *)
(* type's point value (50, 200, 150) to the owner's total_points, once.    *)
C5_UnlockCreditsPoints ==
    [][ (resp'.op = "check_achievements" /\ resp'.inserted # <<>>) =>
            progress'[resp'.user].total_points =
                progress[resp'.user].total_points + SumAchievementPoints(resp'.inserted)
      ]_vars

(* C6: longest_streak >= current_streak in every state reached by          *)
(* update_streak calls from a new UserProgress.                            *)
C6_LongestAtLeastCurrent ==
    \A u \in Users :
        progress[u].exists => progress[u].longest_streak >= progress[u].current_streak

(* C6 witness: a streak was broken and a new, shorter one is running. *)
C6_Witness ==
    /\ resp.op = "update_streak"
    /\ progress[resp.user].exists
    /\ progress[resp.user].current_streak >= 1
    /\ progress[resp.user].longest_streak > progress[resp.user].current_streak

(* C7: no step lowers longest_streak: after every update_streak call, in   *)
(* either branch, it is at least what it was before.                       *)
C7_LongestNeverDecreases ==
    [][ \A u \in Users :
            progress[u].exists =>
                /\ progress'[u].exists
                /\ progress'[u].longest_streak >= progress[u].longest_streak
      ]_vars

(* C7 witness: the reset branch ran on a row whose longest_streak is not 0.*)
C7_Witness ==
    /\ resp.op = "update_streak"
    /\ progress[resp.user].exists
    /\ progress[resp.user].current_streak = 0
    /\ progress[resp.user].longest_streak >= 2

EaseInBounds(e) == cfg.min_ease_factor <= e /\ e <= cfg.max_ease_factor

(* C8: for ratings 0..5, repetitions >= 0, interval >= 1 and an ease       *)
(* factor within [min_ease_factor, max_ease_factor], the ease factor       *)
(* update_spaced_repetition returns is within the bounds, and so is the    *)
(* ease factor all along a chain of updates.                               *)
C8_EaseWithinBounds ==
    /\ EaseInBounds(params.ease_factor)
    /\ call.op = "update" =>
          (EaseInBounds(call.input.ease_factor) => EaseInBounds(call.out.ease_factor))

(* C8 witness: a rating of 5 on a row already at the maximum, reached by a *)
(* chain (the input is itself the result of a success).                    *)
C8_Witness ==
    /\ call.op = "update"
    /\ call.rating = 5
    /\ call.input.ease_factor = cfg.max_ease_factor
    /\ call.input.repetitions >= 3
    /\ call.out.ease_factor = cfg.max_ease_factor

(* C9: for every rating below 3, calculate_next_review_date returns        *)
(* last_review_date plus initial_interval days, whatever the interval and  *)
(* the ease factor.                                                        *)
C9_FailureResetsInterval ==
    (call.op = "next_date" /\ call.rating < 3) =>
        call.out = call.last + cfg.initial_interval

(* C9 witness: a failed review of a row with a long interval. *)
C9_Witness ==
    /\ call.op = "next_date"
    /\ call.rating < 3
    /\ call.input.interval_days > 30
    /\ call.out = call.last + cfg.initial_interval

(* C10: for every valid input calculate_next_review_date returns a date,   *)
(* never None, strictly later than last_review_date.                       *)
C10_NextDateLater ==
    call.op = "next_date" => (call.out # NoDate /\ call.out > call.last)

(* C10 witness: the smallest product, interval 1 at the minimum ease       *)
(* factor with rating 5, still gives one day.                              *)
C10_Witness ==
    /\ call.op = "next_date"
    /\ call.rating = 5
    /\ call.input.interval_days = 1
    /\ call.input.ease_factor = cfg.min_ease_factor
    /\ call.out = call.last + 1

(* C11: a completion whose performance_rating lies outside 0..5 is rejected*)
(* before any computation and is never applied, not even in part: no       *)
(* ReviewHistory row carries such a rating (the handler appends one        *)
(* history row, with the rating it was given, for each completion it       *)
(* carries out).                                                           *)
C11_InvalidRatingRejected ==
    \A i \in 1..Len(history) : history[i].performance_rating \in Ratings

(* C12: completing an item that has no pending row is reported to the      *)
(* caller for that item: every item of a request has an outcome in the     *)
(* response.  The only per-item outcomes a response carries are the        *)
(* entries of completed_reviews.                                           *)
C12_NoActiveScheduleReported ==
    resp.op = "complete_reviews" =>
        Len(resp.ret.completed_reviews) = Len(resp.items)

(* The sessions a complete_reviews step carried out, read back from the    *)
(* ReviewHistory rows it appended.                                         *)
SessionsDone(before, after) ==
    [i \in 1..(Len(after) - Len(before)) |->
        [mistake_id |-> after[Len(before) + i].mistake_id,
         performance_rating |-> after[Len(before) + i].performance_rating]]

(* The items of a request that had a pending row when it arrived. *)
ItemsWithPending(items) ==
    LET Pending(m) == first_pending(reviews, m) # 0
    IN  SelectSeq(items, Pending)

(* C13: an entry of a batch whose item has no pending row changes no       *)
(* stored state and does not stop the batch: the sessions carried out are  *)
(* those of the items that had a pending row, in order, and the tables and *)
(* the response are those of the request without the failing entries; a    *)
(* request of failing entries only changes nothing.                        *)
C13_FailingEntrySkipped ==
    [][resp'.op = "complete_reviews" =>
        LET done == SessionsDone(history, history')
            r == complete_reviews(TheDb, done, today, histUser, cfg)
        IN  /\ [i \in 1..Len(done) |-> done[i].mistake_id] = ItemsWithPending(resp'.items)
            /\ reviews' = r.db.reviews
            /\ history' = r.db.history
            /\ progress' = r.db.progress
            /\ achievements' = r.db.achievements
            /\ resp'.ret = r.ret
            /\ (ItemsWithPending(resp'.items) = <<>> =>
                    UNCHANGED <<reviews, history, progress, achievements>>)
    ]_vars

(* C13 witness: a request named an item without rows first and an item     *)
(* with a pending row second, and the second was completed.                *)
C13_Witness ==
    /\ resp.op = "complete_reviews"
    /\ resp.items = << "m2", "m1" >>
    /\ Len(resp.ret.completed_reviews) = 1
    /\ resp.ret.completed_reviews[1].mistake_id = "m1"
    /\ ~HasRows("m2")
    /\ Len(history) = 1

(* C14: each successful completion increases the user's total_reviews by  *)
(* exactly one: a complete_reviews call that carries out n completions     *)
(* leaves total_reviews n higher than it found it.                         *)
C14_TotalReviewsCounts ==
    [][(resp'.op = "complete_reviews" /\ progress["anonymous"].exists) =>
          progress'["anonymous"].total_reviews =
              progress["anonymous"].total_reviews + Len(resp'.ret.completed_reviews)
    ]_vars

(* C15: whatever step of a completion fails, no committed state has the    *)
(* item's old pending row closed without a pending row for that item: in   *)
(* the committed tables an item that has rows has a pending one.           *)
C15_NoClosedWithoutSuccessor ==
    \A m \in Mistakes : HasRows(m) => PendingCount(m) >= 1

(* C15 witness: a request failed after its award_points had committed,    *)
(* before any other request took a step: the row it found is closed and    *)
(* its successor is pending.                                               *)
C15_Witness ==
    \E p \in Requests :
        /\ pc[p] = "failed"
        /\ \A q \in Requests \ {p} : pc[q] = "find"
        /\ reviews[1].is_completed
        /\ PendingCount(reviews[1].mistake_id) = 1

(* The requests that ran award_points. *)
Awarded == { p \in Requests : sess[p].ret # <<>> }

(* C16: concurrent award_points calls for the same user lose no update:    *)
(* once every request has finished without error, total_points is the      *)
(* initial value plus the points of every call made.                       *)
C16_NoLostAward ==
    (\A p \in Requests : pc[p] = "done") =>
        progress["anonymous"].total_points =
            POINTS_CONFIG("review_completed")
                + Cardinality(Awarded) * POINTS_CONFIG("review_completed")

(* C17: total_points and total_reviews of a UserProgress row never         *)
(* decrease, whatever award_points (any action, any multiplier, zero and   *)
(* negative ones too), update_streak, check_achievements or                *)
(* complete_reviews call is made.                                          *)
C17_TotalsNeverDecrease ==
    [][\A u \in Users :
          progress[u].exists =>
              /\ progress'[u].exists
              /\ progress'[u].total_points >= progress[u].total_points
              /\ progress'[u].total_reviews >= progress[u].total_reviews
    ]_vars

(* C17 witness: award_points was called with a negative multiplier for a   *)
(* user who has points, and returned a negative amount.                    *)
C17_Witness ==
    /\ resp.op = "award_points"
    /\ resp.multiplier < 0
    /\ resp.ret < 0
    /\ progress[resp.user].exists
    /\ progress[resp.user].total_points > 0

(* C18: every ScheduledReview row created by complete_reviews has          *)
(* interval_days between 1 and 365, along any chain of completions from a  *)
(* row with interval_days in 1..365 and an ease factor within the bounds   *)
(* (the rows of Init are such rows).                                       *)
C18_IntervalWithinYear ==
    \A i \in 1..Len(reviews) : reviews[i].interval_days \in 1..MaxIntervalDays

(* C19: interval_days of a row created by complete_reviews is the number   *)
(* of days until its review: the rows a call adds have scheduled_date      *)
(* equal to the time of the call plus interval_days.                       *)
C19_DateIsCompletionPlusInterval ==
    [][resp'.op = "complete_reviews" =>
          \A i \in (Len(reviews) + 1)..Len(reviews') :
              reviews'[i].scheduled_date = today + reviews'[i].interval_days
    ]_vars

(* The days on which a review was completed. *)
ReviewDays == { history[i].review_date : i \in 1..Len(history) }

(* The number of consecutive days, ending with day d, on which a review    *)
(* was completed.                                                          *)
ConsecutiveDays(d) ==
    Cardinality({ k \in 1..(d + 1) : \A j \in 0..(k - 1) : (d - j) \in ReviewDays })

(* C20: current_streak counts consecutive days with a completed review:    *)
(* after a call that completed reviews it is the number of such days up to *)
(* today, so several completions on one day raise it by at most one.       *)
C20_StreakCountsDays ==
    (resp.op = "complete_reviews" /\ resp.ret.completed_reviews # <<>>) =>
        /\ progress["anonymous"].exists
        /\ progress["anonymous"].current_streak = ConsecutiveDays(today)

(* The first review of a row as schedule_initial_reviews writes it, rated 4. *)
FirstReviewRated4 ==
    /\ call.op = "update"
    /\ call.rating = 4
    /\ call.input = [interval_days |-> 1, ease_factor |-> 250, repetitions |-> 0]

HistoryCount(m) == Cardinality({ i \in 1..Len(history) : history[i].mistake_id = m })

CompletedCount(m) ==
    Cardinality({ i \in 1..Len(reviews) :
                    reviews[i].mistake_id = m /\ reviews[i].is_completed })

(* C22: the review history is append-only.  Every completion made by       *)
(* complete_reviews appends exactly one ReviewHistory row, so an item has  *)
(* as many history rows as schedule rows closed, and no operation          *)
(* (award_points, update_streak, check_achievements, complete_reviews)     *)
(* changes or removes a row that is there.                                 *)
C22_HistoryAppendOnly ==
    /\ [](\A m \in Mistakes : HistoryCount(m) = CompletedCount(m))
    /\ [][/\ Len(history') >= Len(history)
          /\ SubSeq(history', 1, Len(history)) = history
          /\ Len(history') - Len(history) =
                 IF resp'.op = "complete_reviews"
                 THEN Len(resp'.ret.completed_reviews)
                 ELSE 0
       ]_vars

(* C22 witness: two reviews of an item were completed, the first one       *)
(* failed, and update_streak ran after them.                               *)
C22_Witness ==
    /\ resp.op = "update_streak"
    /\ Len(history) = 2
    /\ history[1].performance_rating < PassRating
    /\ HistoryCount("m1") = 2
    /\ CompletedCount("m1") = 2

(* C23: update_spaced_repetition returns repetitions + 1 for a rating of 3 *)
(* or more and 0 for a rating below 3, and takes the interval from the new *)
(* count: 1 gives initial_interval, 2 gives 6, more than 2 gives the       *)
(* interval passed in times the new ease factor, truncated.                *)
C23_RepetitionsAndInterval ==
    call.op = "update" =>
        /\ call.rating >= 3 => call.out.repetitions = call.input.repetitions + 1
        /\ call.rating < 3 => call.out.repetitions = 0
        /\ call.out.repetitions = 1 => call.out.interval_days = cfg.initial_interval
        /\ call.out.repetitions = 2 => call.out.interval_days = 6
        /\ call.out.repetitions > 2 =>
              /\ call.out.interval_days * 100
                     <= call.input.interval_days * call.out.ease_factor
              /\ call.input.interval_days * call.out.ease_factor
                     < (call.out.interval_days + 1) * 100

(* C23 witness: a third success in a row, rating 5 on (6, 2.5, 2): the     *)
(* interval is trunc(6 x 2.6) = 15, not trunc(6 x 2.5).                     *)
C23_Witness ==
    /\ call.op = "update"
    /\ call.rating = 5
    /\ call.input = [interval_days |-> 6, ease_factor |-> 250, repetitions |-> 2]
    /\ call.out.repetitions = 3
    /\ call.out.ease_factor = 260
    /\ call.out.interval_days = 15

(* The value between lo and hi nearest to x. *)
Clamp(x, lo, hi) == IF x < lo THEN lo ELSE IF x > hi THEN hi ELSE x

(* C24: the new ease factor is the old one plus 0.1 - (5 - r) x (0.08 +    *)
(* (5 - r) x 0.02) for a rating r of 3 or more (-0.14, 0 and +0.1 for 3, 4 *)
(* and 5), and the old one minus 0.2 for a rating below 3, in both cases   *)
(* clamped to [min_ease_factor, max_ease_factor]; a rating below 3 gives   *)
(* repetitions 0.                                                          *)
C24_NewEaseFactor ==
    call.op = "update" =>
        LET e == call.input.ease_factor
            d == CASE call.rating = 3 -> -14
                   [] call.rating = 4 -> 0
                   [] call.rating = 5 -> 10
                   [] OTHER -> -20
        IN  /\ call.out.ease_factor = Clamp(e + d, cfg.min_ease_factor, cfg.max_ease_factor)
            /\ call.rating < 3 => call.out.repetitions = 0

(* C24 witness: ease 2.5 with rating 2 gives 2.3 and repetitions 0. *)
C24_Witness ==
    /\ call.op = "update"
    /\ call.rating = 2
    /\ call.input.ease_factor = 250
    /\ call.input.repetitions > 0
    /\ call.out.ease_factor = 230
    /\ call.out.repetitions = 0

(* The multiplier of a successful rating, in hundredths. *)
MultiplierOf(r) ==
    CASE r = 3 -> cfg.good_multiplier
      [] r = 4 -> cfg.easy_multiplier
      [] OTHER -> 100

(* C25: for a rating of 3 or more calculate_next_review_date adds          *)
(* min(current_interval x ease_factor x m, 365), truncated, to             *)
(* last_review_date, m being good_multiplier for 3, easy_multiplier for 4  *)
(* and 1 for 5; the date is never more than 365 days later.                *)
C25_SuccessDate ==
    (call.op = "next_date" /\ call.rating >= 3) =>
        LET x == call.input.interval_days * call.input.ease_factor * MultiplierOf(call.rating)
            days == call.out - call.last
        IN  /\ days <= 365
            /\ IF x >= 365 * 10000
               THEN days = 365
               ELSE days * 10000 <= x /\ x < (days + 1) * 10000

(* C25 witness: a product above 365 days is cut to 365, for a rating of 4  *)
(* whose multiplier is what takes it above.                                *)
C25_Witness ==
    /\ call.op = "next_date"
    /\ call.rating = 4
    /\ call.last > 0
    /\ call.input.interval_days * call.input.ease_factor < 365 * 100
    /\ call.out = call.last + 365

(* The user has a ReviewHistory row dated today. *)
ReviewedToday(u) ==
    \E i \in 1..Len(history) : history[i].user_id = u /\ history[i].review_date = today

(* C26: update_streak has two branches.  When the user has a review today, *)
(* current_streak becomes min(current_streak + 1, 365), last_review_date   *)
(* today and longest_streak max(longest_streak, new current_streak);       *)
(* otherwise current_streak becomes 0 and the other two stay.  Either way  *)
(* total_points and total_reviews stay and current_streak is in 0..365.    *)
C26_UpdateStreakBranches ==
    [][\A u \in Users :
          (resp'.op = "update_streak" /\ resp'.user = u /\ progress[u].exists) =>
              LET old == progress[u]
                  new == progress'[u]
              IN  /\ new.exists
                  /\ ReviewedToday(u) =>
                        /\ new.current_streak =
                               (IF old.current_streak + 1 > 365 THEN 365
                                ELSE old.current_streak + 1)
                        /\ new.last_review_date = today
                        /\ new.longest_streak =
                               (IF new.current_streak > old.longest_streak
                                THEN new.current_streak ELSE old.longest_streak)
                  /\ ~ ReviewedToday(u) =>
                        /\ new.current_streak = 0
                        /\ new.longest_streak = old.longest_streak
                        /\ new.last_review_date = old.last_review_date
                  /\ new.total_points = old.total_points
                  /\ new.total_reviews = old.total_reviews
                  /\ new.current_streak \in 0..365
    ]_vars

(* C26 witness: update_streak ran with the streak at 365 and a review      *)
(* today (a streak of 364 reaches 365 only by the completion that writes   *)
(* today's history row, so the call found 365).                            *)
C26_Witness ==
    /\ resp.op = "update_streak"
    /\ progress[resp.user].exists
    /\ progress[resp.user].current_streak = 365
    /\ progress[resp.user].last_review_date = today
    /\ ReviewedToday(resp.user)

(* The achievement types whose threshold holds on a progress row, in the   *)
(* order the thresholds are listed.                                        *)
TypesDue(row) ==
    (IF row.current_streak >= 7 THEN << "streak_7_days" >> ELSE <<>>)
    \o (IF row.current_streak >= 30 THEN << "streak_30_days" >> ELSE <<>>)
    \o (IF row.total_reviews >= 100 THEN << "total_reviews_100" >> ELSE <<>>)

SeqRange(q) == { q[i] : i \in 1..Len(q) }

(* C28: check_achievements unlocks exactly the types whose threshold holds *)
(* on the user's progress: it returns them in the order streak_7_days,     *)
(* streak_30_days, total_reviews_100, each of them has an Achievement row  *)
(* afterwards, and the rows the call inserts are of these types only       *)
(* (never accuracy_90).                                                    *)
C28_UnlocksByThreshold ==
    (resp.op = "check_achievements" /\ progress[resp.user].exists) =>
        LET due == TypesDue(progress[resp.user])
        IN  /\ RetNames(resp.ret) = due
            /\ \A t \in SeqRange(due) : has_achievement(TheDb, resp.user, t)
            /\ SeqRange(resp.inserted) \subseteq SeqRange(due)
            /\ "accuracy_90" \notin SeqRange(resp.inserted)

(* C28 witness: current_streak 7 with total_reviews 5 unlocked             *)
(* streak_7_days and nothing else.                                         *)
C28_Witness ==
    /\ resp.op = "check_achievements"
    /\ progress[resp.user].exists
    /\ progress[resp.user].current_streak = 7
    /\ progress[resp.user].total_reviews = 5
    /\ resp.inserted = << "streak_7_days" >>
    /\ RetNames(resp.ret) = << "streak_7_days" >>
    /\ Len(achievements) = 1

(* total_points of a user, 0 while the user has no UserProgress row. *)
PointsOf(p, u) == IF p[u].exists THEN p[u].total_points ELSE 0

(* C29: award_points adds base_points[action] x multiplier to the user's   *)
(* total_points and returns the amount added: in every case the returned   *)
(* value is the product and equals the change of total_points (0 and no    *)
(* change for an unknown action).                                          *)
C29_ReturnIsChange ==
    [][resp'.op = "award_points" =>
          /\ resp'.ret = POINTS_CONFIG(resp'.action) * resp'.multiplier
          /\ PointsOf(progress', resp'.user) - PointsOf(progress, resp'.user) = resp'.ret
    ]_vars

(* The row of the same item written last before row i. *)
LastRowBefore(rows, i) ==
    CHOOSE j \in 1..(i - 1) :
        /\ rows[j].mistake_id = rows[i].mistake_id
        /\ \A k \in (j + 1)..(i - 1) : rows[k].mistake_id # rows[i].mistake_id

(* C27: when complete_reviews completes the pending row R of an item with  *)
(* rating r, R becomes completed and one new pending row of the item is    *)
(* created, with (interval_days, ease_factor, repetitions) =                *)
(* update_spaced_repetition(R.interval_days, R.ease_factor, R.repetitions, *)
(* r) and scheduled_date = calculate_next_review_date(now, r, new          *)
(* interval, new ease factor).  In a call that completes an item more than *)
(* once, R is the row the completion before it created.                    *)
C27_SuccessorRow ==
    [][resp'.op = "complete_reviews" =>
        LET done == SessionsDone(history, history')
            n == Len(reviews)
        IN  /\ Len(reviews') = n + Len(done)
            /\ \A j \in 1..n :
                  /\ [reviews'[j] EXCEPT !.is_completed = FALSE]
                         = [reviews[j] EXCEPT !.is_completed = FALSE]
                  /\ reviews[j].is_completed => reviews'[j].is_completed
            /\ \A k \in 1..Len(done) :
                  LET new == reviews'[n + k]
                      old == LastRowBefore(reviews', n + k)
                      R == reviews'[old]
                      r == done[k].performance_rating
                      upd == update_spaced_repetition(cfg, R.interval_days,
                                 R.ease_factor, R.repetitions, r)
                  IN  /\ R.is_completed
                      /\ old <= n => ~ reviews[old].is_completed
                      /\ new.mistake_id = done[k].mistake_id
                      /\ new.interval_days = upd.interval_days
                      /\ new.ease_factor = upd.ease_factor
                      /\ new.repetitions = upd.repetitions
                      /\ new.scheduled_date =
                             calculate_next_review_date(cfg, today, r,
                                 upd.interval_days, upd.ease_factor)
                      /\ new.is_completed =
                             (\E k2 \in (k + 1)..Len(done) :
                                  done[k2].mistake_id = done[k].mistake_id)
    ]_vars

(* C27 witness: a row with interval 6, ease factor 2.5 and 2 repetitions   *)
(* was completed with rating 5 on day 1: its successor has (15, 2.6, 3)    *)
(* and is due 1 + trunc(15 x 2.6) = 40.                                    *)
C27_Witness ==
    /\ resp.op = "complete_reviews"
    /\ Len(reviews) = 2
    /\ reviews[1].is_completed
    /\ reviews[1].interval_days = 6
    /\ history[1].performance_rating = 5
    /\ today = 1
    /\ ~ reviews[2].is_completed
    /\ reviews[2].interval_days = 15
    /\ reviews[2].ease_factor = 260
    /\ reviews[2].repetitions = 3
    /\ reviews[2].scheduled_date = 40

(* The number of successful reviews at the end of h[1..k]. *)
RECURSIVE TrailingSuccesses(_, _)
TrailingSuccesses(h, k) ==
    IF k = 0 \/ h[k].performance_rating < 3 THEN 0
    ELSE 1 + TrailingSuccesses(h, k - 1)

(* C30: in a chain of completions of one item (row i + 1 is the successor  *)
(* the i-th completion created), a failed review leaves the successor with *)
(* repetitions 0, the next successful review gives repetitions 1 and       *)
(* interval_days initial_interval whatever interval was stored, and a      *)
(* row's repetitions is the number of consecutive successful reviews since *)
(* the last failure (on top of the first row's count while there was no    *)
(* failure).                                                               *)
C30_RepetitionsCountSuccesses ==
    \A i \in 1..Len(history) :
        LET r == history[i].performance_rating
            run == TrailingSuccesses(history, i)
        IN  /\ r < 3 => reviews[i + 1].repetitions = 0
            /\ (r >= 3 /\ reviews[i].repetitions = 0) =>
                  /\ reviews[i + 1].repetitions = 1
                  /\ reviews[i + 1].interval_days = cfg.initial_interval
            /\ reviews[i + 1].repetitions =
                   (IF run = i THEN reviews[1].repetitions + run ELSE run)

(* C30 witness: a review failed, leaving a stored interval above           *)
(* initial_interval, and the next review of the item succeeded.            *)
C30_Witness ==
    /\ Len(history) = 2
    /\ history[1].performance_rating < 3
    /\ history[2].performance_rating >= 3
    /\ reviews[2].repetitions = 0
    /\ reviews[2].interval_days > cfg.initial_interval
    /\ reviews[3].repetitions = 1
    /\ reviews[3].interval_days = cfg.initial_interval

====
